---- MODULE Spec2Model ----
(***************************************************************************)
(* A model of backend/tax_engine.py: the TaxEngine ledger (lots,           *)
(* tax_events, income_events), its operations add_acquisition,             *)
(* add_disposal and add_income and its reports generate_summary,           *)
(* generate_form_8949 and export_csv, with decimal.Decimal arithmetic      *)
(* modelled as decimal floating point under the context's rounding.        *)
(***************************************************************************)
EXTENDS Integers, Sequences, FiniteSets, TLC

(***************************************************************************)
(* decimal.Decimal.  A value is coefficient * 10^exponent, kept normalised *)
(* (no trailing zero in the coefficient; zero is <<0, 0>>), so that record *)
(* equality is Decimal's numeric ==.  Arithmetic results are rounded to    *)
(* the context precision with ROUND_HALF_EVEN, as the default context      *)
(* does.  Python's default precision is 28 digits; the model keeps         *)
(* DecPrec digits and the same rounding rule.                              *)
(***************************************************************************)
DecPrec == 3

RECURSIVE Pow10(_)
Pow10(n) == IF n <= 0 THEN 1 ELSE 10 * Pow10(n - 1)

RECURSIVE NumDigits(_)
NumDigits(n) == IF n < 10 THEN 1 ELSE 1 + NumDigits(n \div 10)

Abs(n) == IF n < 0 THEN -n ELSE n

RECURSIVE DecNorm(_, _)
DecNorm(c, e) ==
    IF c = 0 THEN [c |-> 0, e |-> 0]
    ELSE IF c % 10 = 0 THEN DecNorm(c \div 10, e + 1)
    ELSE [c |-> c, e |-> e]

\* Decimal(n) for an integer n: exact, whatever the context.
Dec(n) == DecNorm(n, 0)

\* The context's rounding of the exact value c * 10^e to prec digits,
\* ROUND_HALF_EVEN.
DecRoundTo(prec, c, e) ==
    LET a == Abs(c)
        k == NumDigits(a) - prec
    IN  IF k <= 0 THEN DecNorm(c, e)
        ELSE LET q    == a \div Pow10(k)
                 r    == a % Pow10(k)
                 half == 5 * Pow10(k - 1)
                 up   == r > half \/ (r = half /\ q % 2 = 1)
                 m    == IF up THEN q + 1 ELSE q
             IN  DecNorm(IF c < 0 THEN -m ELSE m, e + k)

DecRound(c, e) == DecRoundTo(DecPrec, c, e)

MinInt(a, b) == IF a < b THEN a ELSE b

\* The two coefficients over the common (smaller) exponent.
DecAlignL(a, b) == a.c * Pow10(a.e - MinInt(a.e, b.e))
DecAlignR(a, b) == b.c * Pow10(b.e - MinInt(a.e, b.e))

\* Decimal.__add__, __sub__, __mul__, __neg__ under the context.
DecAdd(a, b) == DecRound(DecAlignL(a, b) + DecAlignR(a, b), MinInt(a.e, b.e))
DecNeg(a) == [c |-> -a.c, e |-> a.e]
DecSub(a, b) == DecAdd(a, DecNeg(b))
DecMul(a, b) == DecRound(a.c * b.c, a.e + b.e)

\* Decimal.__truediv__ under the context (b # 0): the quotient to more
\* digits than the precision, a sticky digit for a non-zero remainder, then
\* one rounding.
DecDiv(a, b) ==
    IF a.c = 0 THEN Dec(0)
    ELSE LET na  == Abs(a.c)
             nb  == Abs(b.c)
             s0  == DecPrec + NumDigits(nb) - NumDigits(na) + 1
             s   == IF s0 < 0 THEN 0 ELSE s0
             num == na * Pow10(s)
             q   == num \div nb
             r   == num % nb
             neg == (a.c < 0) # (b.c < 0)
             qs  == IF r = 0 THEN q ELSE 10 * q + 1
             es  == IF r = 0 THEN a.e - b.e - s ELSE a.e - b.e - s - 1
         IN  DecRound(IF neg THEN -qs ELSE qs, es)

\* Decimal comparisons (numeric).
DecLt(a, b) == DecAlignL(a, b) < DecAlignR(a, b)
DecLe(a, b) == DecAlignL(a, b) <= DecAlignR(a, b)
DecGt(a, b) == DecLt(b, a)
DecIsPos(a) == a.c > 0
DecIsNeg(a) == a.c < 0

\* min(a, b) of Python: b only when b < a.
DecMin(a, b) == IF DecLt(b, a) THEN b ELSE a

\* Exact arithmetic on decimal values (no context): the mathematical sum and
\* product, used to state properties, never by the engine.
ExactAdd(a, b) == DecNorm(DecAlignL(a, b) + DecAlignR(a, b), MinInt(a.e, b.e))
ExactMul(a, b) == DecNorm(a.c * b.c, a.e + b.e)


(***************************************************************************)
(* Inputs.  Dates are datetimes counted in hours since 2023-01-01T00:00;   *)
(* amounts and USD values are Decimals; a call's transaction hash is a     *)
(* string of characters.                                                   *)
(***************************************************************************)
MaxCalls == 4
MaxAnyCalls == 2

Assets == {"UNI", "ETH"}
\* The asset the calls of Spec trade in.
Traded == {"UNI"}
Amounts == {Dec(1), Dec(3)}
DisposalAmounts == {Dec(1), Dec(2), Dec(3)}
CostsUsd == {Dec(10)}
ProceedsUsd == {Dec(100)}
AcquiredDates == {0, 24}
DisposedDates == {366 * 24}
IncomeAmounts == {Dec(2)}
FmvUsd == {Dec(20)}
IncomeDates == {12}
Protocols == {"uniswap"}
EventTypes == {"swap"}
IncomeTypes == {"interest"}

\* Values the engine's callers can also pass: nothing in the signatures
\* excludes them.
AnyAmounts == {Dec(-1), Dec(0), Dec(1)}
AnyUsd == {Dec(-10), Dec(10)}

\* The cost_basis_method strings given to the constructor, and str.upper()
\* on them.
MethodNames == {"FIFO", "LIFO", "HIFO"}
MethodInputs == {"FIFO", "LIFO", "HIFO", "fifo", "avg"}
Upper(m) ==
    CASE m = "fifo" -> "FIFO"
      [] m = "avg" -> "AVG"
      [] OTHER -> m

\* The transaction hash of the n-th call, and tx_hash[:8].
TxHash(n) == <<"0", "x", n, "a", "b", "c", "d", "e", "f", "0">>
Prefix8(h) == SubSeq(h, 1, MinInt(8, Len(h)))

VARIABLES
    method,         \* TaxEngine.method
    lots,           \* TaxEngine.lots: asset -> list of TaxLot
    tax_events,     \* TaxEngine.tax_events
    income_events,  \* TaxEngine.income_events
    created,        \* history: asset -> the (amount, cost_basis_usd) each lot was created with
    call            \* history: the last call, its arguments, its return value, whether it
                    \* raised (no operation of the engine has a raise statement or a
                    \* validation) and the ledger before it

vars == <<method, lots, tax_events, income_events, created, call>>

\* TaxEngine.__init__
EngineInit(cost_basis_method) ==
    /\ method = Upper(cost_basis_method)
    /\ lots = [a \in Assets |-> <<>>]
    /\ tax_events = <<>>
    /\ income_events = <<>>
    /\ created = [a \in Assets |-> <<>>]
    /\ call = [op |-> "init", n |-> 0]

Init == \E m \in MethodNames : EngineInit(m)

InitAny == \E m \in MethodInputs : EngineInit(m)

\* TaxLot.unit_cost
unit_cost(lot) ==
    IF lot.amount = Dec(0) THEN Dec(0)
    ELSE DecDiv(lot.cost_basis_usd, lot.amount)

\* The TaxLot add_acquisition builds, and the list it is appended to.
NewLot(ls, asset, amount, cost_basis_usd, acquired_date, tx_hash, protocol) ==
    [asset |-> asset, amount |-> amount, cost_basis_usd |-> cost_basis_usd,
     acquired_date |-> acquired_date, tx_hash |-> tx_hash, protocol |-> protocol,
     lot_id |-> <<Prefix8(tx_hash), asset, Len(ls[asset])>>]

\* A faulty add_acquisition: a lot of the same asset and date absorbs the
\* purchase instead of a new lot being appended.
add_acquisition_merging(ls, asset, amount, cost_basis_usd, acquired_date, tx_hash, protocol) ==
    LET same == {i \in 1..Len(ls[asset]) : ls[asset][i].acquired_date = acquired_date}
    IN  IF same = {}
        THEN [ls EXCEPT ![asset] = Append(@,
                NewLot(ls, asset, amount, cost_basis_usd, acquired_date, tx_hash, protocol))]
        ELSE LET i == CHOOSE j \in same : TRUE
             IN  [ls EXCEPT ![asset][i].amount = DecAdd(@, amount),
                            ![asset][i].cost_basis_usd = DecAdd(@, cost_basis_usd)]

add_acquisition(ls, asset, amount, cost_basis_usd, acquired_date, tx_hash, protocol) ==
    [ls EXCEPT ![asset] = Append(@,
        NewLot(ls, asset, amount, cost_basis_usd, acquired_date, tx_hash, protocol))]

\* sorted(list, key=...) of Python on a list with the integer keys key[1..n]:
\* the stable order of the indices (equal keys keep their list order).
\* reverse=True sorts descending and keeps the list order of equal keys too.
StableSorted(key, reverse) ==
    LET n == Len(key)
        before(i, j) == IF reverse THEN key[i] > key[j] ELSE key[i] < key[j]
        pos == [i \in 1..n |-> 1 + Cardinality({j \in 1..n :
                    before(j, i) \/ (key[j] = key[i] /\ j < i)})]
    IN  [p \in 1..n |-> CHOOSE i \in 1..n : pos[i] = p]

\* The rank of each lot's unit cost among the list's unit costs: an integer
\* ordered as the Decimal keys are.
UnitCostKeys(L) ==
    LET u == [i \in 1..Len(L) |-> unit_cost(L[i])]
    IN  [i \in 1..Len(L) |-> Cardinality({j \in 1..Len(L) : DecLt(u[j], u[i])})]

\* A faulty _sort_lots: FIFO sorted with reverse=True.
SortLotsFifoReversed(m, L, current_price) ==
    CASE m = "FIFO" -> StableSorted([i \in 1..Len(L) |-> L[i].acquired_date], TRUE)
      [] m = "LIFO" -> StableSorted([i \in 1..Len(L) |-> L[i].acquired_date], TRUE)
      [] m = "HIFO" -> StableSorted(UnitCostKeys(L), TRUE)
      [] OTHER -> [p \in 1..Len(L) |-> p]

\* TaxEngine._sort_lots, as the order in which the list's lots are walked.
SortLots(m, L, current_price) ==
    CASE m = "FIFO" -> StableSorted([i \in 1..Len(L) |-> L[i].acquired_date], FALSE)
      [] m = "LIFO" -> StableSorted([i \in 1..Len(L) |-> L[i].acquired_date], TRUE)
      [] m = "HIFO" -> StableSorted(UnitCostKeys(L), TRUE)
      [] OTHER -> [p \in 1..Len(L) |-> p]

\* (disposed_date - lot.acquired_date).days
TimedeltaDays(later, earlier) == (later - earlier) \div 24

LongTermDays == 365

\* A faulty holding period: a lot held 365 days counted as long-term.
HoldingPeriodInclusive(disposed_date, acquired_date) ==
    IF TimedeltaDays(disposed_date, acquired_date) >= LongTermDays THEN "long" ELSE "short"

HoldingPeriod(disposed_date, acquired_date) ==
    IF TimedeltaDays(disposed_date, acquired_date) > LongTermDays THEN "long" ELSE "short"


\* The TaxEvent of the zero-cost-basis branch of add_disposal (no lot list).
FallbackEvent(d) ==
    [asset |-> d.asset, amount_disposed |-> d.amount, proceeds_usd |-> d.proceeds_usd,
     cost_basis_usd |-> Dec(0), gain_loss_usd |-> d.proceeds_usd,
     acquired_date |-> d.disposed_date, disposed_date |-> d.disposed_date,
     holding_period |-> "short", tx_hash |-> d.tx_hash, protocol |-> d.protocol,
     event_type |-> d.event_type]

\* One pass of add_disposal's loop body over a lot with amount > 0: the
\* amounts it computes.
disposed_amount(remaining, lot) == DecMin(remaining, lot.amount)

proportion(remaining, lot) ==
    IF DecIsPos(lot.amount) THEN DecDiv(disposed_amount(remaining, lot), lot.amount)
    ELSE Dec(0)

\* A faulty cost_basis: the consumed cost as unit cost times amount.
cost_basis_by_unit_cost(remaining, lot) ==
    DecMul(unit_cost(lot), disposed_amount(remaining, lot))

cost_basis(remaining, lot) == DecMul(lot.cost_basis_usd, proportion(remaining, lot))

proceeds(remaining, lot, d) ==
    IF DecIsPos(d.amount)
    THEN DecMul(d.proceeds_usd, DecDiv(disposed_amount(remaining, lot), d.amount))
    ELSE Dec(0)

\* A faulty TaxEvent: the gain is the proceeds, the cost basis left out.
MatchEventGainIsProceeds(remaining, lot, d) ==
    [asset |-> d.asset, amount_disposed |-> disposed_amount(remaining, lot),
     proceeds_usd |-> proceeds(remaining, lot, d),
     cost_basis_usd |-> cost_basis(remaining, lot),
     gain_loss_usd |-> proceeds(remaining, lot, d),
     acquired_date |-> lot.acquired_date, disposed_date |-> d.disposed_date,
     holding_period |-> HoldingPeriod(d.disposed_date, lot.acquired_date),
     tx_hash |-> d.tx_hash, protocol |-> d.protocol, event_type |-> d.event_type]

MatchEvent(remaining, lot, d) ==
    [asset |-> d.asset, amount_disposed |-> disposed_amount(remaining, lot),
     proceeds_usd |-> proceeds(remaining, lot, d),
     cost_basis_usd |-> cost_basis(remaining, lot),
     gain_loss_usd |-> DecSub(proceeds(remaining, lot, d), cost_basis(remaining, lot)),
     acquired_date |-> lot.acquired_date, disposed_date |-> d.disposed_date,
     holding_period |-> HoldingPeriod(d.disposed_date, lot.acquired_date),
     tx_hash |-> d.tx_hash, protocol |-> d.protocol, event_type |-> d.event_type]

\* "Update lot": the lot after the pass.
UpdateLot(remaining, lot) ==
    [lot EXCEPT !.amount = DecSub(lot.amount, disposed_amount(remaining, lot)),
                !.cost_basis_usd = DecSub(lot.cost_basis_usd, cost_basis(remaining, lot))]

\* A faulty loop: exhausted lots are walked like open ones and get an event.
RECURSIVE MatchLotsNoSkip(_, _, _, _, _, _)
MatchLotsNoSkip(order, k, L, remaining, events, d) ==
    IF k > Len(order) \/ DecLe(remaining, Dec(0))
    THEN [lots |-> L, events |-> events, remaining |-> remaining]
    ELSE MatchLotsNoSkip(order, k + 1,
                   [L EXCEPT ![order[k]] = UpdateLot(remaining, L[order[k]])],
                   DecSub(remaining, disposed_amount(remaining, L[order[k]])),
                   Append(events, MatchEvent(remaining, L[order[k]], d)),
                   d)

\* add_disposal's loop from the k-th lot of the sorted order on: L is the
\* asset's list, events the events emitted so far.
RECURSIVE MatchLots(_, _, _, _, _, _)
MatchLots(order, k, L, remaining, events, d) ==
    IF k > Len(order) \/ DecLe(remaining, Dec(0))
    THEN [lots |-> L, events |-> events, remaining |-> remaining]
    ELSE IF DecLe(L[order[k]].amount, Dec(0))
    THEN MatchLots(order, k + 1, L, remaining, events, d)
    ELSE MatchLots(order, k + 1,
                   [L EXCEPT ![order[k]] = UpdateLot(remaining, L[order[k]])],
                   DecSub(remaining, disposed_amount(remaining, L[order[k]])),
                   Append(events, MatchEvent(remaining, L[order[k]], d)),
                   d)

\* The price add_disposal hands to _sort_lots.
CurrentPrice(d) ==
    IF DecIsPos(d.amount) THEN DecDiv(d.proceeds_usd, d.amount) ELSE Dec(0)

\* add_disposal on the ledger: the asset's list after the call and the
\* events it emits (appended to tax_events and returned).
add_disposal(m, L, d) ==
    IF Len(L) = 0
    THEN [lots |-> L, events |-> <<FallbackEvent(d)>>, remaining |-> d.amount]
    ELSE MatchLots(SortLots(m, L, CurrentPrice(d)), 1, L, d.amount, <<>>, d)

(***************************************************************************)
(* The operations.                                                         *)
(***************************************************************************)
Before == [lots |-> lots, tax_events |-> tax_events, income_events |-> income_events]

AddAcquisition(asset, amount, cost_basis_usd, acquired_date, protocol) ==
    /\ call.n < MaxCalls
    /\ lots' = add_acquisition(lots, asset, amount, cost_basis_usd, acquired_date,
                               TxHash(call.n + 1), protocol)
    /\ created' = [created EXCEPT ![asset] =
                      Append(@, [amount |-> amount, cost_basis_usd |-> cost_basis_usd])]
    /\ call' = [op |-> "add_acquisition", n |-> call.n + 1, asset |-> asset,
                amount |-> amount, usd |-> cost_basis_usd, date |-> acquired_date,
                ret |-> lots'[asset][Len(lots'[asset])], raised |-> FALSE,
                before |-> Before]
    /\ UNCHANGED <<method, tax_events, income_events>>

\* A faulty add_disposal: it returns self.tax_events, not the events of
\* the call.
AddDisposalReturningAll(asset, amount, proceeds_usd, disposed_date, protocol, event_type) ==
    LET d == [asset |-> asset, amount |-> amount, proceeds_usd |-> proceeds_usd,
              disposed_date |-> disposed_date, tx_hash |-> TxHash(call.n + 1),
              protocol |-> protocol, event_type |-> event_type]
        r == add_disposal(method, lots[asset], d)
    IN  /\ call.n < MaxCalls
        /\ lots' = [lots EXCEPT ![asset] = r.lots]
        /\ tax_events' = tax_events \o r.events
        /\ call' = [op |-> "add_disposal", n |-> call.n + 1, asset |-> asset,
                    amount |-> amount, usd |-> proceeds_usd, date |-> disposed_date,
                    ret |-> tax_events', raised |-> FALSE, before |-> Before]
        /\ UNCHANGED <<method, income_events, created>>

OtherAsset(asset) == CHOOSE a \in Assets : a # asset

\* A faulty add_disposal: the lots of another asset are matched.
AddDisposalOtherAsset(asset, amount, proceeds_usd, disposed_date, protocol, event_type) ==
    LET d == [asset |-> asset, amount |-> amount, proceeds_usd |-> proceeds_usd,
              disposed_date |-> disposed_date, tx_hash |-> TxHash(call.n + 1),
              protocol |-> protocol, event_type |-> event_type]
        r == add_disposal(method, lots[OtherAsset(asset)], d)
    IN  /\ call.n < MaxCalls
        /\ lots' = [lots EXCEPT ![OtherAsset(asset)] = r.lots]
        /\ tax_events' = tax_events \o r.events
        /\ call' = [op |-> "add_disposal", n |-> call.n + 1, asset |-> asset,
                    amount |-> amount, usd |-> proceeds_usd, date |-> disposed_date,
                    ret |-> r.events, raised |-> FALSE, before |-> Before]
        /\ UNCHANGED <<method, income_events, created>>

AddDisposal(asset, amount, proceeds_usd, disposed_date, protocol, event_type) ==
    LET d == [asset |-> asset, amount |-> amount, proceeds_usd |-> proceeds_usd,
              disposed_date |-> disposed_date, tx_hash |-> TxHash(call.n + 1),
              protocol |-> protocol, event_type |-> event_type]
        r == add_disposal(method, lots[asset], d)
    IN  /\ call.n < MaxCalls
        /\ lots' = [lots EXCEPT ![asset] = r.lots]
        /\ tax_events' = tax_events \o r.events
        /\ call' = [op |-> "add_disposal", n |-> call.n + 1, asset |-> asset,
                    amount |-> amount, usd |-> proceeds_usd, date |-> disposed_date,
                    ret |-> r.events, raised |-> FALSE, before |-> Before]
        /\ UNCHANGED <<method, income_events, created>>

\* A faulty add_income: the income is recorded and no lot is opened.
AddIncomeWithoutLot(asset, amount, fmv_usd, date, protocol, income_type) ==
    /\ call.n < MaxCalls
    /\ income_events' = Append(income_events,
           [asset |-> asset, amount |-> amount, fair_market_value_usd |-> fmv_usd,
            date |-> date, tx_hash |-> TxHash(call.n + 1), protocol |-> protocol,
            income_type |-> income_type])
    /\ call' = [op |-> "add_income", n |-> call.n + 1, asset |-> asset,
                amount |-> amount, usd |-> fmv_usd, date |-> date,
                ret |-> income_events'[Len(income_events')], raised |-> FALSE,
                before |-> Before]
    /\ UNCHANGED <<method, lots, created, tax_events>>

\* A faulty add_income: the lot is opened with a cost basis of zero.
AddIncomeZeroBasis(asset, amount, fmv_usd, date, protocol, income_type) ==
    /\ call.n < MaxCalls
    /\ income_events' = Append(income_events,
           [asset |-> asset, amount |-> amount, fair_market_value_usd |-> fmv_usd,
            date |-> date, tx_hash |-> TxHash(call.n + 1), protocol |-> protocol,
            income_type |-> income_type])
    /\ lots' = add_acquisition(lots, asset, amount, Dec(0), date,
                               TxHash(call.n + 1), protocol)
    /\ created' = [created EXCEPT ![asset] =
                      Append(@, [amount |-> amount, cost_basis_usd |-> Dec(0)])]
    /\ call' = [op |-> "add_income", n |-> call.n + 1, asset |-> asset,
                amount |-> amount, usd |-> fmv_usd, date |-> date,
                ret |-> income_events'[Len(income_events')], raised |-> FALSE,
                before |-> Before]
    /\ UNCHANGED <<method, tax_events>>

AddIncome(asset, amount, fmv_usd, date, protocol, income_type) ==
    /\ call.n < MaxCalls
    /\ income_events' = Append(income_events,
           [asset |-> asset, amount |-> amount, fair_market_value_usd |-> fmv_usd,
            date |-> date, tx_hash |-> TxHash(call.n + 1), protocol |-> protocol,
            income_type |-> income_type])
    /\ lots' = add_acquisition(lots, asset, amount, fmv_usd, date,
                               TxHash(call.n + 1), protocol)
    /\ created' = [created EXCEPT ![asset] =
                      Append(@, [amount |-> amount, cost_basis_usd |-> fmv_usd])]
    /\ call' = [op |-> "add_income", n |-> call.n + 1, asset |-> asset,
                amount |-> amount, usd |-> fmv_usd, date |-> date,
                ret |-> income_events'[Len(income_events')], raised |-> FALSE,
                before |-> Before]
    /\ UNCHANGED <<method, tax_events>>

\* Calls with amount > 0 and USD values >= 0, on an engine built with a
\* documented method.
Next ==
    \/ \E a \in Traded, x \in Amounts, c \in CostsUsd, t \in AcquiredDates, p \in Protocols :
          AddAcquisition(a, x, c, t, p)
    \/ \E a \in Traded, x \in DisposalAmounts, c \in ProceedsUsd, t \in DisposedDates,
          p \in Protocols, y \in EventTypes :
          AddDisposal(a, x, c, t, p, y)
    \/ \E a \in Traded, x \in IncomeAmounts, c \in FmvUsd, t \in IncomeDates,
          p \in Protocols, y \in IncomeTypes :
          AddIncome(a, x, c, t, p, y)

Spec == Init /\ [][Next]_vars

\* Calls with any amount and USD value, on an engine built with any method
\* string.
AnyAcquisition ==
    /\ call.n < MaxAnyCalls
    /\ \E a \in Traded, x \in AnyAmounts, c \in AnyUsd, t \in AcquiredDates, p \in Protocols :
          AddAcquisition(a, x, c, t, p)

AnyDisposal ==
    /\ call.n < MaxAnyCalls
    /\ \E a \in Traded, x \in AnyAmounts, c \in AnyUsd, t \in DisposedDates,
          p \in Protocols, y \in EventTypes :
          AddDisposal(a, x, c, t, p, y)

AnyIncome ==
    /\ call.n < MaxAnyCalls
    /\ \E a \in Traded, x \in AnyAmounts, c \in AnyUsd, t \in IncomeDates,
          p \in Protocols, y \in IncomeTypes :
          AddIncome(a, x, c, t, p, y)

NextAny == AnyAcquisition \/ AnyDisposal \/ AnyIncome

SpecAny == InitAny /\ [][NextAny]_vars

(***************************************************************************)
(* The reports.  A date is a datetime in hours since 2023-01-01T00:00; the *)
(* calendar below gives its year, month and day.  A string that str() or   *)
(* strftime() produces is modelled by the tuple of the numbers it spells.  *)
(***************************************************************************)
IsLeap(y) == (y % 4 = 0 /\ y % 100 # 0) \/ y % 400 = 0
DaysInYear(y) == IF IsLeap(y) THEN 366 ELSE 365
DaysInMonth(y, mo) ==
    IF mo = 2 THEN (IF IsLeap(y) THEN 29 ELSE 28)
    ELSE IF mo \in {4, 6, 9, 11} THEN 30 ELSE 31

\* The date that is `day` days after the first of month mo of year y.
RECURSIVE CivilFrom(_, _, _)
CivilFrom(y, mo, day) ==
    IF day < DaysInMonth(y, mo) THEN [year |-> y, month |-> mo, day |-> day + 1]
    ELSE IF mo = 12 THEN CivilFrom(y + 1, 1, day - DaysInMonth(y, mo))
    ELSE CivilFrom(y, mo + 1, day - DaysInMonth(y, mo))

DateOf(t) == CivilFrom(2023, 1, t \div 24)

\* datetime.year, strftime("%m/%d/%Y") and strftime("%Y-%m-%d")
Year(t) == DateOf(t).year
StrfMDY(t) == <<DateOf(t).month, DateOf(t).day, DateOf(t).year>>
StrfYMD(t) == <<DateOf(t).year, DateOf(t).month, DateOf(t).day>>

\* str(x.quantize(Decimal("0.01"), rounding)) and f"{x:.6f}": x rounded to
\* `places` decimals under the rounding mode, as the number of units of
\* 10^-places the digits spell ("0.13" is 13 at two places).
Quantize(x, places, rounding) ==
    IF x.e >= -places THEN x.c * Pow10(x.e + places)
    ELSE LET k    == (-places) - x.e
             a    == Abs(x.c)
             q    == a \div Pow10(k)
             r    == a % Pow10(k)
             half == 5 * Pow10(k - 1)
             up   == IF rounding = "ROUND_HALF_UP" THEN r >= half
                     ELSE r > half \/ (r = half /\ q % 2 = 1)
             n    == IF up THEN q + 1 ELSE q
         IN  IF x.c < 0 THEN -n ELSE n

\* str(x) of a Decimal: its digits and exponent.
DecStr(x) == <<x.c, x.e>>

\* tax_year is Optional[int]: <<>> is None, <<y>> the integer y.  The
\* reports filter "if tax_year:", which None and 0 fail.
NoYear == <<>>
Truthy(tax_year) == tax_year # <<>> /\ tax_year[1] # 0

EventsOfYear(events, tax_year) ==
    IF Truthy(tax_year)
    THEN SelectSeq(events, LAMBDA e : Year(e.disposed_date) = tax_year[1])
    ELSE events

IncomeOfYear(income, tax_year) ==
    IF Truthy(tax_year)
    THEN SelectSeq(income, LAMBDA e : Year(e.date) = tax_year[1])
    ELSE income

\* sum(q) of Python over a non-empty list of Decimals: 0 + q[1] + ... under
\* the context.  (Over an empty list sum() is the int 0.)
RECURSIVE DecSumFrom(_, _)
DecSumFrom(acc, q) ==
    IF Len(q) = 0 THEN acc ELSE DecSumFrom(DecAdd(acc, Head(q)), Tail(q))
PySum(q) == DecSumFrom(Dec(0), q)

\* TaxEngine._group_income_by_type
GroupIncomeByType(income) ==
    LET types == {income[k].income_type : k \in 1..Len(income)}
        of(t) == SelectSeq(income, LAMBDA e : e.income_type = t)
    IN  [t \in types |->
            Quantize(PySum([k \in 1..Len(of(t)) |-> of(t)[k].fair_market_value_usd]),
                     2, "ROUND_HALF_EVEN")]

Gains(events) == [k \in 1..Len(events) |-> events[k].gain_loss_usd]
ShortTerm(events) == SelectSeq(events, LAMBDA e : e.holding_period = "short")
LongTerm(events) == SelectSeq(events, LAMBDA e : e.holding_period = "long")

\* TaxEngine.generate_summary.  sum() over no element is the int 0, and
\* int has no quantize: the call raises AttributeError when the selection
\* has no short-term event, no long-term event or no income event.
generate_summary(m, all_events, all_income, tax_year) ==
    LET events == EventsOfYear(all_events, tax_year)
        income == IncomeOfYear(all_income, tax_year)
        short_term_gains == PySum(Gains(ShortTerm(events)))
        long_term_gains == PySum(Gains(LongTerm(events)))
        total_income ==
            PySum([k \in 1..Len(income) |-> income[k].fair_market_value_usd])
    IN  IF ShortTerm(events) = <<>> \/ LongTerm(events) = <<>> \/ income = <<>>
        THEN [raised |-> TRUE, ret |-> "AttributeError"]
        ELSE [raised |-> FALSE, ret |->
               [tax_year |-> tax_year,
                cost_basis_method |-> m,
                capital_gains |->
                  [short_term |->
                     [total |-> Quantize(short_term_gains, 2, "ROUND_HALF_UP"),
                      events |-> Len(ShortTerm(events))],
                   long_term |->
                     [total |-> Quantize(long_term_gains, 2, "ROUND_HALF_UP"),
                      events |-> Len(LongTerm(events))],
                   net_total |-> Quantize(DecAdd(short_term_gains, long_term_gains),
                                          2, "ROUND_HALF_UP")],
                income |->
                  [total |-> Quantize(total_income, 2, "ROUND_HALF_UP"),
                   events |-> Len(income),
                   by_type |-> GroupIncomeByType(income)],
                protocols_used |->
                   {events[k].protocol : k \in 1..Len(events)}
                       \cup {income[k].protocol : k \in 1..Len(income)},
                total_transactions |-> Len(events)]]

\* TaxEngine.generate_form_8949: one row per selected event.
generate_form_8949(all_events, tax_year) ==
    LET events == EventsOfYear(all_events, tax_year)
    IN  [k \in 1..Len(events) |->
            [description |-> <<Quantize(events[k].amount_disposed, 6, "ROUND_HALF_EVEN"),
                               events[k].asset, events[k].protocol>>,
             date_acquired |-> StrfMDY(events[k].acquired_date),
             date_sold |-> StrfMDY(events[k].disposed_date),
             proceeds |-> Quantize(events[k].proceeds_usd, 2, "ROUND_HALF_EVEN"),
             cost_basis |-> Quantize(events[k].cost_basis_usd, 2, "ROUND_HALF_EVEN"),
             gain_loss |-> Quantize(events[k].gain_loss_usd, 2, "ROUND_HALF_EVEN"),
             term |-> IF events[k].holding_period = "short" THEN "A" ELSE "D",
             tx_hash |-> events[k].tx_hash]]

\* TaxEngine.export_csv: the header row, then one row per selected event.
CsvHeader ==
    <<"date_sold", "date_acquired", "asset", "amount", "proceeds_usd",
      "cost_basis_usd", "gain_loss_usd", "holding_period", "protocol",
      "event_type", "tx_hash">>

export_csv(all_events, tax_year) ==
    LET events == EventsOfYear(all_events, tax_year)
    IN  <<CsvHeader>> \o
        [k \in 1..Len(events) |->
            [date_sold |-> StrfYMD(events[k].disposed_date),
             date_acquired |-> StrfYMD(events[k].acquired_date),
             asset |-> events[k].asset,
             amount |-> DecStr(events[k].amount_disposed),
             proceeds_usd |-> Quantize(events[k].proceeds_usd, 2, "ROUND_HALF_EVEN"),
             cost_basis_usd |-> Quantize(events[k].cost_basis_usd, 2, "ROUND_HALF_EVEN"),
             gain_loss_usd |-> Quantize(events[k].gain_loss_usd, 2, "ROUND_HALF_EVEN"),
             holding_period |-> events[k].holding_period,
             protocol |-> events[k].protocol,
             event_type |-> events[k].event_type,
             tx_hash |-> events[k].tx_hash]]

\* The result of the call before this one, when that call was
\* generate_summary with the same tax_year (history).
PriorSummary(tax_year) ==
    IF call.op = "generate_summary" /\ call.tax_year = tax_year
    THEN <<[ret |-> call.ret, raised |-> call.raised]>>
    ELSE <<>>

\* A faulty generate_summary: the events it reported are dropped from
\* tax_events.
GenerateSummaryConsuming(tax_year) ==
    LET r == generate_summary(method, tax_events, income_events, tax_year)
    IN  /\ call' = [op |-> "generate_summary", n |-> call.n, tax_year |-> tax_year,
                    ret |-> r.ret, raised |-> r.raised,
                    prior |-> PriorSummary(tax_year), before |-> Before]
        /\ tax_events' = IF Truthy(tax_year)
                         THEN SelectSeq(tax_events,
                                  LAMBDA e : Year(e.disposed_date) # tax_year[1])
                         ELSE <<>>
        /\ UNCHANGED <<method, lots, income_events, created>>

GenerateSummary(tax_year) ==
    LET r == generate_summary(method, tax_events, income_events, tax_year)
    IN  /\ call' = [op |-> "generate_summary", n |-> call.n, tax_year |-> tax_year,
                    ret |-> r.ret, raised |-> r.raised,
                    prior |-> PriorSummary(tax_year), before |-> Before]
        /\ UNCHANGED <<method, lots, tax_events, income_events, created>>

GenerateForm8949(tax_year) ==
    /\ call' = [op |-> "generate_form_8949", n |-> call.n, tax_year |-> tax_year,
                ret |-> generate_form_8949(tax_events, tax_year), raised |-> FALSE,
                before |-> Before]
    /\ UNCHANGED <<method, lots, tax_events, income_events, created>>

\* A faulty export_csv: the filtered list is stored back into tax_events.
ExportCsvKeepingFilter(tax_year) ==
    /\ call' = [op |-> "export_csv", n |-> call.n, tax_year |-> tax_year,
                ret |-> export_csv(tax_events, tax_year), raised |-> FALSE,
                before |-> Before]
    /\ tax_events' = EventsOfYear(tax_events, tax_year)
    /\ UNCHANGED <<method, lots, income_events, created>>

ExportCsv(tax_year) ==
    /\ call' = [op |-> "export_csv", n |-> call.n, tax_year |-> tax_year,
                ret |-> export_csv(tax_events, tax_year), raised |-> FALSE,
                before |-> Before]
    /\ UNCHANGED <<method, lots, tax_events, income_events, created>>

\* The ledger calls and the reports together: purchases on 2023-01-01,
\* income on 2023-01-01 and 2024-01-01, disposals on 2024-01-02, reports for
\* no year, 2023 and 2024.
MaxReportCalls == 3
ReportYears == {NoYear, <<2023>>, <<2024>>}
ReportAcquiredDates == {0}
ReportDisposalAmounts == {Dec(3)}
ReportFmvUsd == {DecNorm(125, -3)}
ReportIncomeDates == {12, 365 * 24 + 12}

ReportAcquisition ==
    /\ call.n < MaxReportCalls
    /\ \E a \in Traded, x \in Amounts, c \in CostsUsd, t \in ReportAcquiredDates,
          p \in Protocols :
          AddAcquisition(a, x, c, t, p)

ReportDisposal ==
    /\ call.n < MaxReportCalls
    /\ \E a \in Traded, x \in ReportDisposalAmounts, c \in ProceedsUsd,
          t \in DisposedDates, p \in Protocols, y \in EventTypes :
          AddDisposal(a, x, c, t, p, y)

ReportIncome ==
    /\ call.n < MaxReportCalls
    /\ \E a \in Traded, x \in IncomeAmounts, c \in ReportFmvUsd,
          t \in ReportIncomeDates, p \in Protocols, y \in IncomeTypes :
          AddIncome(a, x, c, t, p, y)

NextReports ==
    \/ ReportAcquisition
    \/ ReportDisposal
    \/ ReportIncome
    \/ \E y \in ReportYears : GenerateSummary(y)
    \/ \E y \in ReportYears : GenerateForm8949(y)
    \/ \E y \in ReportYears : ExportCsv(y)

SpecReports == Init /\ [][NextReports]_vars

\* The documented end-to-end scenario and its neighbours: purchases of 10
\* UNI for $50 or $100 on 2024-01-01 or 2024-06-01, disposals of 5 or 15 UNI
\* for $300 on 2024-07-01, and the 2024 summary.
MaxScenarioCalls == 3
ScenarioAmounts == {Dec(10)}
ScenarioCostsUsd == {Dec(50), Dec(100)}
ScenarioAcquiredDates == {365 * 24, (365 + 152) * 24}
ScenarioDisposalAmounts == {Dec(5), Dec(15)}
ScenarioProceedsUsd == {Dec(300)}
ScenarioDisposedDates == {(365 + 182) * 24}
ScenarioYears == {<<2024>>}

ScenarioAcquisition ==
    /\ call.n < MaxScenarioCalls
    /\ \E a \in Traded, x \in ScenarioAmounts, c \in ScenarioCostsUsd,
          t \in ScenarioAcquiredDates, p \in Protocols :
          AddAcquisition(a, x, c, t, p)

ScenarioDisposal ==
    /\ call.n < MaxScenarioCalls
    /\ \E a \in Traded, x \in ScenarioDisposalAmounts, c \in ScenarioProceedsUsd,
          t \in ScenarioDisposedDates, p \in Protocols, y \in EventTypes :
          AddDisposal(a, x, c, t, p, y)

ScenarioSummary == \E y \in ScenarioYears : GenerateSummary(y)

NextScenario == ScenarioAcquisition \/ ScenarioDisposal \/ ScenarioSummary

SpecScenario == Init /\ [][NextScenario]_vars

\* The ledger calls on both assets.
MaxAssetCalls == 3

AssetAcquisition ==
    /\ call.n < MaxAssetCalls
    /\ \E a \in Assets, x \in Amounts, c \in CostsUsd, t \in ReportAcquiredDates,
          p \in Protocols :
          AddAcquisition(a, x, c, t, p)

AssetDisposal ==
    /\ call.n < MaxAssetCalls
    /\ \E a \in Assets, x \in ReportDisposalAmounts, c \in ProceedsUsd,
          t \in DisposedDates, p \in Protocols, y \in EventTypes :
          AddDisposal(a, x, c, t, p, y)

AssetIncome ==
    /\ call.n < MaxAssetCalls
    /\ \E a \in Assets, x \in IncomeAmounts, c \in FmvUsd, t \in IncomeDates,
          p \in Protocols, y \in IncomeTypes :
          AddIncome(a, x, c, t, p, y)

NextAssets == AssetAcquisition \/ AssetDisposal \/ AssetIncome

SpecAssets == Init /\ [][NextAssets]_vars

(***************************************************************************)
(* backend/main.py: batch ingestion and the two report endpoints.  A raw   *)
(* transaction is the dict an adapter returned, or None.  The text of an   *)
(* amount is <<"num", c, e>> when it spells the number c * 10^e and        *)
(* <<"text", ...>> when it spells no number; a timestamp is in seconds     *)
(* since 1970-01-01T00:00 UTC.                                             *)
(***************************************************************************)
\* Decimal(str(x)): the number the text spells; InvalidOperation otherwise.
ParseDecimal(s) ==
    IF s[1] = "num" THEN [ok |-> TRUE, value |-> DecNorm(s[2], s[3])]
    ELSE [ok |-> FALSE, value |-> Dec(0)]

\* datetime.utcfromtimestamp(timestamp), in hours since 2023-01-01T00:00.
UtcFromTimestamp(ts) == (ts - 1672531200) \div 3600

SwapEvents == {"Swap", "TokenExchange", "swap"}

\* One pass of _process_transactions' loop over the raw transaction tx, on
\* the engine st: what the try block does, and in `outcomes` (history) how
\* the pass ended: "raised" is an exception swallowed by "except: pass".
ProcessOne(m, st, tx) ==
    IF ~tx.isdict
    THEN [st EXCEPT !.outcomes = Append(@, "raised")]
    ELSE IF tx.event \notin SwapEvents
    THEN [st EXCEPT !.outcomes = Append(@, "no call")]
    ELSE LET amount_in == ParseDecimal(tx.amount_in)
             amount_out == ParseDecimal(tx.amount_out)
             value_usd == ParseDecimal(tx.value_usd)
             dt == UtcFromTimestamp(tx.timestamp)
             bought == DecIsPos(amount_in.value)
             sold == DecIsPos(amount_out.value)
             ls == IF bought
                   THEN add_acquisition(st.lots, tx.token_in, amount_in.value,
                                        value_usd.value, dt, tx.hash, tx.protocol)
                   ELSE st.lots
             cr == IF bought
                   THEN [st.created EXCEPT ![tx.token_in] =
                            Append(@, [amount |-> amount_in.value,
                                       cost_basis_usd |-> value_usd.value])]
                   ELSE st.created
             d == [asset |-> tx.token_out, amount |-> amount_out.value,
                   proceeds_usd |-> value_usd.value, disposed_date |-> dt,
                   tx_hash |-> tx.hash, protocol |-> tx.protocol,
                   event_type |-> "swap"]
             r == add_disposal(m, ls[tx.token_out], d)
         IN  IF ~amount_in.ok \/ ~amount_out.ok \/ ~value_usd.ok
             THEN [st EXCEPT !.outcomes = Append(@, "raised")]
             ELSE [method |-> st.method,
                   lots |-> IF sold THEN [ls EXCEPT ![tx.token_out] = r.lots] ELSE ls,
                   tax_events |-> IF sold THEN st.tax_events \o r.events
                                  ELSE st.tax_events,
                   created |-> cr,
                   outcomes |-> Append(st.outcomes, "ingested")]

\* _process_transactions(engine, transactions): the engine after the loop.
RECURSIVE process_transactions(_, _, _)
process_transactions(m, st, transactions) ==
    IF Len(transactions) = 0 THEN st
    ELSE process_transactions(m, ProcessOne(m, st, Head(transactions)),
                              Tail(transactions))

\* TaxEngine(cost_basis_method): a new engine, as the endpoints build one.
TaxEngine(cost_basis_method) ==
    [method |-> Upper(cost_basis_method),
     lots |-> [a \in Assets |-> <<>>], tax_events |-> <<>>,
     created |-> [a \in Assets |-> <<>>], outcomes |-> <<>>]

\* The value of a function that ends without a return statement.
None == <<>>

\* _process_transactions on a newly built engine, as generate_tax_report
\* calls it.
ProcessTransactions(transactions) ==
    /\ call.op = "init"
    /\ \E st \in {process_transactions(method, TaxEngine(method), transactions)} :
            /\ lots' = st.lots
            /\ tax_events' = st.tax_events
            /\ created' = st.created
            /\ call' = [op |-> "_process_transactions", n |-> Len(transactions),
                        transactions |-> transactions, outcomes |-> st.outcomes,
                        ret |-> None, raised |-> FALSE, before |-> Before]
            /\ UNCHANGED <<method, income_events>>

\* wallet_address.startswith("0x")
StartsWith0x(w) == Len(w) >= 2 /\ SubSeq(w, 1, 2) = <<"0", "x">>

\* POST /api/tax-report, report_format "summary": the engine the request
\* builds, and the response or the exception the handler ends with.  The
\* transactions are what the adapters returned for the request.  A handler
\* keeps nothing between requests: each request is served from the initial
\* state.
generate_tax_report(request, all_transactions) ==
    LET m == Upper(request.cost_basis_method)
        st == process_transactions(m, TaxEngine(request.cost_basis_method), all_transactions)
        summary == generate_summary(m, st.tax_events, <<>>, request.tax_year)
    IN  IF Len(request.wallet_address) = 0 \/ ~StartsWith0x(request.wallet_address)
        THEN [built |-> FALSE, raised |-> TRUE, ret |-> "HTTPException 400"]
        ELSE IF summary.raised
        THEN [built |-> TRUE, engine |-> st, method |-> m,
              raised |-> TRUE, ret |-> summary.ret]
        ELSE [built |-> TRUE, engine |-> st, method |-> m, raised |-> FALSE,
              ret |-> [wallet |-> request.wallet_address, report |-> summary.ret,
                       transaction_count |-> Len(all_transactions),
                       cost_basis_method |-> request.cost_basis_method]]

GenerateTaxReport(request, all_transactions) ==
    /\ call.op = "init"
    /\ \E r \in {generate_tax_report(request, all_transactions)} :
            /\ call' = [op |-> "generate_tax_report", n |-> Len(all_transactions),
                        request |-> request, transactions |-> all_transactions,
                        ret |-> r.ret, raised |-> r.raised]
            /\ IF r.built
               THEN /\ method' = r.method
                    /\ lots' = r.engine.lots
                    /\ tax_events' = r.engine.tax_events
                    /\ income_events' = <<>>
                    /\ created' = r.engine.created
               ELSE UNCHANGED <<method, lots, tax_events, income_events, created>>

\* GET /api/tax-report/csv: the handler runs generate_tax_report, then
\* builds another TaxEngine and returns that engine's export_csv.  The
\* variables hold the engine built last; report_events are the tax events of
\* the engine generate_tax_report built (history).
ExportCsvEndpoint(request, all_transactions) ==
    /\ call.op = "init"
    /\ \E r \in {generate_tax_report(request, all_transactions)} :
            /\ call' = [op |-> "export_csv_endpoint", n |-> Len(all_transactions),
                        request |-> request, transactions |-> all_transactions,
                        report_events |-> IF r.built THEN r.engine.tax_events ELSE <<>>,
                        ret |-> IF r.raised THEN r.ret
                                ELSE export_csv(<<>>, request.tax_year),
                        raised |-> r.raised]
            /\ IF r.raised /\ r.built
               THEN /\ method' = r.method
                    /\ lots' = r.engine.lots
                    /\ tax_events' = r.engine.tax_events
                    /\ income_events' = <<>>
                    /\ created' = r.engine.created
               ELSE IF r.raised
               THEN UNCHANGED <<method, lots, tax_events, income_events, created>>
               ELSE /\ method' = Upper(request.cost_basis_method)
                    /\ lots' = TaxEngine(request.cost_basis_method).lots
                    /\ tax_events' = <<>>
                    /\ income_events' = <<>>
                    /\ created' = TaxEngine(request.cost_basis_method).created

\* The raw transactions: a purchase of 1 UNI for $10 at 2023-01-01T00:00Z, a
\* sale of 1 UNI for $100 at 2024-01-02T00:00Z, a swap whose amount_in is
\* not a number, an Aave Supply event, and None; the n-th of a batch has
\* the hash of TxHash(n).
MaxBatchLen == 3
Shapes == {"buy", "sell", "malformed", "supply", "none"}
RawTx(shape, pos) ==
    [isdict |-> shape # "none",
     protocol |-> IF shape = "supply" THEN "aave" ELSE "uniswap",
     hash |-> TxHash(pos),
     timestamp |-> IF shape = "sell" THEN 1672531200 + 366 * 86400 ELSE 1672531200,
     event |-> IF shape = "supply" THEN "Supply" ELSE "Swap",
     token_in |-> "UNI", token_out |-> "UNI",
     amount_in |-> CASE shape = "buy" -> <<"num", 1, 0>>
                     [] shape = "malformed" -> <<"text", "abc">>
                     [] OTHER -> <<"num", 0, 0>>,
     amount_out |-> IF shape = "sell" THEN <<"num", 1, 0>> ELSE <<"num", 0, 0>>,
     value_usd |-> IF shape = "sell" THEN <<"num", 100, 0>> ELSE <<"num", 10, 0>>]
Batches ==
    UNION {{[k \in 1..n |-> RawTx(s[k], k)] : s \in [1..n -> Shapes]} : n \in 0..MaxBatchLen}

Wallets == {<<"0", "x", "a", "b", "c">>, <<"a", "b", "c">>}
Requests ==
    [wallet_address : Wallets, tax_year : {NoYear, <<2024>>},
     cost_basis_method : MethodNames]

NextApi ==
    \/ \E b \in Batches : ProcessTransactions(b)
    \/ \E q \in Requests, b \in Batches : GenerateTaxReport(q, b)
    \/ \E q \in Requests, b \in Batches : ExportCsvEndpoint(q, b)

SpecApi == Init /\ [][NextApi]_vars


(***************************************************************************)
(* Vocabulary of the properties.                                           *)
(***************************************************************************)
\* The mathematical sum of a sequence of Decimals.
RECURSIVE SumExact(_)
SumExact(q) == IF Len(q) = 0 THEN Dec(0) ELSE ExactAdd(q[1], SumExact(Tail(q)))

IsOpen(lot) == DecIsPos(lot.amount)

\* The last call was add_disposal; the asset's list before and after it.
Disposed == call.op = "add_disposal"
LotsBefore == call.before.lots[call.asset]
LotsAfter == lots[call.asset]
Touched(i) == LotsAfter[i] # LotsBefore[i]
OpenBefore == {i \in 1..Len(LotsBefore) : IsOpen(LotsBefore[i])}
TotalOpenBefore == SumExact([i \in 1..Len(LotsBefore) |->
                       IF IsOpen(LotsBefore[i]) THEN LotsBefore[i].amount ELSE Dec(0)])
ReturnedAmount == SumExact([k \in 1..Len(call.ret) |-> call.ret[k].amount_disposed])
ReturnedCostBasis == SumExact([k \in 1..Len(call.ret) |-> call.ret[k].cost_basis_usd])

\* Every lot of the asset is as it was created, and the disposal asked for
\* their summed amount.
FullDisposal ==
    /\ Disposed
    /\ Len(LotsBefore) > 0
    /\ \A i \in 1..Len(LotsBefore) :
          /\ LotsBefore[i].amount = created[call.asset][i].amount
          /\ LotsBefore[i].cost_basis_usd = created[call.asset][i].cost_basis_usd
          /\ IsOpen(LotsBefore[i])
    /\ call.amount = TotalOpenBefore

\* C1: under every method, a disposal of the summed amount of the asset's
\* untouched lots returns events whose cost bases sum to the lots' original
\* cost bases and whose amounts sum to the requested amount.
C1_CostBasisConservation ==
    FullDisposal =>
        /\ ReturnedCostBasis =
              SumExact([i \in 1..Len(created[call.asset]) |->
                           created[call.asset][i].cost_basis_usd])
        /\ ReturnedAmount = call.amount

C1_Witness ==
    /\ FullDisposal
    /\ Len(LotsBefore) >= 2
    /\ Len(call.ret) = Len(LotsBefore)

FifoEarlier(i, j) ==
    \/ LotsBefore[i].acquired_date < LotsBefore[j].acquired_date
    \/ (LotsBefore[i].acquired_date = LotsBefore[j].acquired_date /\ i < j)

\* C2: under FIFO a disposal touches a lot only when every open lot that is
\* earlier (earlier acquisition date, or the same date and earlier in the
\* list) ends exhausted, and its events come in ascending acquisition date.
C2_FifoOrder ==
    (Disposed /\ method = "FIFO") =>
        /\ \A i, j \in OpenBefore :
              (FifoEarlier(i, j) /\ Touched(j)) => LotsAfter[i].amount = Dec(0)
        /\ \A k, l \in 1..Len(call.ret) :
              k < l => call.ret[k].acquired_date <= call.ret[l].acquired_date

\* The lot touched is neither the first of the list (a later date precedes
\* it) nor the last of its date (a lot of the same date follows it).
C2_Witness ==
    /\ Disposed /\ method = "FIFO"
    /\ \E i, j, k \in OpenBefore :
          /\ i < j /\ j < k
          /\ LotsBefore[i].acquired_date > LotsBefore[j].acquired_date
          /\ LotsBefore[k].acquired_date = LotsBefore[j].acquired_date
          /\ Touched(j) /\ ~Touched(i) /\ ~Touched(k)

LifoEarlier(i, j) ==
    \/ LotsBefore[i].acquired_date > LotsBefore[j].acquired_date
    \/ (LotsBefore[i].acquired_date = LotsBefore[j].acquired_date /\ i > j)

\* C3: under LIFO a disposal touches a lot only when every open lot that is
\* later (later acquisition date, or the same date and later in the list)
\* ends exhausted.
C3_LifoOrder ==
    (Disposed /\ method = "LIFO") =>
        \A i, j \in OpenBefore :
            (LifoEarlier(i, j) /\ Touched(j)) => LotsAfter[i].amount = Dec(0)

HifoEarlier(i, j) ==
    \/ DecGt(unit_cost(LotsBefore[i]), unit_cost(LotsBefore[j]))
    \/ /\ unit_cost(LotsBefore[i]) = unit_cost(LotsBefore[j])
       /\ LotsBefore[i].acquired_date < LotsBefore[j].acquired_date

\* C4: under HIFO a disposal touches a lot only when every open lot of
\* higher unit cost, or of the same unit cost and earlier acquisition date,
\* ends exhausted.
C4_HifoOrder ==
    (Disposed /\ method = "HIFO") =>
        \A i, j \in OpenBefore :
            (HifoEarlier(i, j) /\ Touched(j)) => LotsAfter[i].amount = Dec(0)

\* C5: a disposal of an asset with no open lot emits and returns exactly one
\* event, with cost basis 0, gain = proceeds and holding period "short".
C5_ZeroLotFallback ==
    (Disposed /\ OpenBefore = {}) =>
        /\ Len(call.ret) = 1
        /\ call.ret[1].cost_basis_usd = Dec(0)
        /\ call.ret[1].gain_loss_usd = call.usd
        /\ call.ret[1].holding_period = "short"
        /\ tax_events = call.before.tax_events \o call.ret

UnderSupplied ==
    /\ Disposed
    /\ OpenBefore # {}
    /\ DecGt(call.amount, TotalOpenBefore)

\* C6: a disposal that asks for more than the open lots hold consumes every
\* open lot, and its result accounts for the whole requested amount: the
\* matched amounts plus the unmatched remainder it reports.  The result of
\* add_disposal is the list of events, so the amounts it reports are the
\* events' amounts.
C6_RemainderSurfaced ==
    UnderSupplied =>
        /\ \A i \in OpenBefore : LotsAfter[i].amount = Dec(0)
        /\ ReturnedAmount = call.amount

InvalidCall ==
    /\ call.op \in {"add_acquisition", "add_disposal"}
    /\ (DecLe(call.amount, Dec(0)) \/ DecIsNeg(call.usd))

\* C7: add_acquisition and add_disposal with amount <= 0 or a negative USD
\* value raise, and leave lots, tax_events and income_events as they were.
C7_InvalidRejected ==
    InvalidCall =>
        /\ call.raised
        /\ lots = call.before.lots
        /\ tax_events = call.before.tax_events
        /\ income_events = call.before.income_events

\* C8: no engine exists whose method is not FIFO, LIFO or HIFO.
C8_KnownMethod == method \in MethodNames

\* C9: an event's holding period is "long" exactly when more than 365 whole
\* days (at least 366 * 24 hours) lie between acquisition and disposal.
C9_HoldingPeriod ==
    \A k \in 1..Len(tax_events) :
        (tax_events[k].holding_period = "long") <=>
            (tax_events[k].disposed_date - tax_events[k].acquired_date >= 366 * 24)

C9_Witness ==
    /\ \E k \in 1..Len(tax_events) :
          /\ tax_events[k].disposed_date - tax_events[k].acquired_date = 365 * 24
          /\ tax_events[k].holding_period = "short"
    /\ \E k \in 1..Len(tax_events) :
          /\ tax_events[k].disposed_date - tax_events[k].acquired_date = 366 * 24
          /\ tax_events[k].holding_period = "long"
    /\ \E k \in 1..Len(tax_events) :
          /\ tax_events[k].disposed_date - tax_events[k].acquired_date = 365 * 24 + 12
          /\ tax_events[k].holding_period = "short"

\* C10: every lot has amount >= 0 and cost basis >= 0, a zero amount only
\* with a zero cost basis, and, while open, the unit cost it was created
\* with: cost_basis_usd * original amount = original cost basis * amount.
C10_LotInvariant ==
    \A a \in Assets : \A i \in 1..Len(lots[a]) :
        /\ ~DecIsNeg(lots[a][i].amount)
        /\ ~DecIsNeg(lots[a][i].cost_basis_usd)
        /\ (lots[a][i].amount = Dec(0) => lots[a][i].cost_basis_usd = Dec(0))
        /\ IsOpen(lots[a][i]) =>
              ExactMul(lots[a][i].cost_basis_usd, created[a][i].amount)
                  = ExactMul(created[a][i].cost_basis_usd, lots[a][i].amount)

\* The last call was add_income with a positive amount.
IncomeAdded == call.op = "add_income" /\ DecIsPos(call.amount)
OpenAfter == {i \in 1..Len(LotsAfter) : IsOpen(LotsAfter[i])}

\* C11: an add_income call with amount > 0 raises the number of open lots of
\* the asset by exactly one and the number of income events by exactly one,
\* and leaves the tax events and every lot that existed before the call as
\* they were.
C11_IncomeAddsOneLot ==
    IncomeAdded =>
        /\ Cardinality(OpenAfter) = Cardinality(OpenBefore) + 1
        /\ Len(income_events) = Len(call.before.income_events) + 1
        /\ tax_events = call.before.tax_events
        /\ \A a \in Assets : \A i \in 1..Len(call.before.lots[a]) :
              /\ i <= Len(lots[a])
              /\ lots[a][i] = call.before.lots[a][i]

C11_Witness ==
    /\ IncomeAdded
    /\ Len(tax_events) > 0
    /\ OpenBefore # {}
    /\ \E i \in 1..Len(LotsBefore) : ~IsOpen(LotsBefore[i])

\* Lot i of the asset of the last call came from the k-th income event and
\* was as add_income made it when the call began.
UntouchedIncomeLot(i, k) ==
    /\ income_events[k].asset = call.asset
    /\ LotsBefore[i].tx_hash = income_events[k].tx_hash
    /\ LotsBefore[i].amount = income_events[k].amount

\* The disposal took all of lot i.
MatchedInFull(i) == Touched(i) /\ LotsAfter[i].amount = Dec(0)

\* C12: the lot add_income opens has the income's asset, amount and date and
\* the fair market value as its cost basis, and a later disposal that takes
\* the whole of that lot reports an event with cost basis fmv_usd.
C12_IncomeLotAtFmv ==
    /\ call.op = "add_income" =>
          LET lot == LotsAfter[Len(LotsAfter)]
          IN  /\ Len(LotsAfter) = Len(LotsBefore) + 1
              /\ lot.asset = call.asset
              /\ lot.amount = call.amount
              /\ lot.cost_basis_usd = call.usd
              /\ lot.acquired_date = call.date
              /\ call.ret.fair_market_value_usd = call.usd
    /\ Disposed =>
          \A i \in 1..Len(LotsBefore) : \A k \in 1..Len(income_events) :
              (UntouchedIncomeLot(i, k) /\ MatchedInFull(i)) =>
                  \E j \in 1..Len(call.ret) :
                      /\ call.ret[j].acquired_date = income_events[k].date
                      /\ call.ret[j].amount_disposed = income_events[k].amount
                      /\ call.ret[j].cost_basis_usd =
                            income_events[k].fair_market_value_usd

C12_Witness ==
    /\ Disposed
    /\ Len(call.ret) >= 2
    /\ \E i \in 1..Len(LotsBefore) : \E k \in 1..Len(income_events) :
          UntouchedIncomeLot(i, k) /\ MatchedInFull(i)

\* The last call was add_disposal and found lots of the asset to match.
Matched == Disposed /\ Len(LotsBefore) > 0
ReturnedProceeds == SumExact([k \in 1..Len(call.ret) |-> call.ret[k].proceeds_usd])

\* C13: every event of a lot-matching add_disposal(amount, proceeds_usd) has
\* proceeds proceeds_usd * (amount_disposed / amount), and when the events
\* cover the whole requested amount their proceeds sum to proceeds_usd.
C13_ProceedsProportional ==
    Matched =>
        /\ \A k \in 1..Len(call.ret) :
              call.ret[k].proceeds_usd =
                  DecMul(call.usd, DecDiv(call.ret[k].amount_disposed, call.amount))
        /\ ReturnedAmount = call.amount => ReturnedProceeds = call.usd

\* The mathematical difference of two Decimals.
ExactSub(x, y) == ExactAdd(x, DecNeg(y))

C15_LotsAppendOnly ==
    call.op # "init" =>
        /\ \A a \in Assets : \A i \in 1..Len(call.before.lots[a]) :
              /\ i <= Len(lots[a])
              /\ lots[a][i].lot_id = call.before.lots[a][i].lot_id
              /\ lots[a][i].tx_hash = call.before.lots[a][i].tx_hash
              /\ lots[a][i].acquired_date = call.before.lots[a][i].acquired_date
              /\ DecLe(lots[a][i].amount, call.before.lots[a][i].amount)
        /\ call.op = "add_acquisition" =>
              /\ Len(LotsAfter) = Len(LotsBefore) + 1
              /\ \A a \in Assets \ {call.asset} : lots[a] = call.before.lots[a]
              /\ \A i \in 1..Len(LotsBefore) : LotsAfter[i] = LotsBefore[i]

C15_Witness ==
    /\ call.op = "add_acquisition"
    /\ \E i \in 1..Len(LotsBefore) :
          /\ LotsBefore[i].acquired_date = call.date
          /\ IsOpen(LotsBefore[i])
          /\ LotsBefore[i].amount # created[call.asset][i].amount
    /\ \E i \in 1..Len(LotsBefore) : ~IsOpen(LotsBefore[i])

\* The last call was generate_summary and so was the call before it, with
\* the same tax_year.
SummaryRepeated == call.op = "generate_summary" /\ call.prior # <<>>

\* C16: two generate_summary calls with the same tax_year and no call
\* between them give the same result.
C16_SummaryIdempotent ==
    SummaryRepeated =>
        /\ call.raised = call.prior[1].raised
        /\ ~call.raised => call.ret = call.prior[1].ret

C16_Witness ==
    /\ SummaryRepeated
    /\ ~call.raised
    /\ Truthy(call.tax_year)
    /\ call.ret.total_transactions >= 2

ReportOps == {"generate_summary", "generate_form_8949", "export_csv"}

\* C17: generate_summary, generate_form_8949 and export_csv leave lots,
\* tax_events and income_events as they were, at full precision.
C17_ReportsReadOnly ==
    call.op \in ReportOps =>
        /\ lots = call.before.lots
        /\ tax_events = call.before.tax_events
        /\ income_events = call.before.income_events

\* A Decimal with more than two decimals.
FinerThanCents(x) == x.e < -2

C17_Witness ==
    /\ call.op = "export_csv"
    /\ Truthy(call.tax_year)
    /\ Len(call.ret) < 1 + Len(tax_events)
    /\ \E k \in 1..Len(tax_events) : FinerThanCents(tax_events[k].cost_basis_usd)
    /\ \E a \in Assets : \E i \in 1..Len(lots[a]) : IsOpen(lots[a][i])

\* x in cents, a half cent rounded away from zero: floor(|x| * 100 + 1/2)
\* with the sign of x.
HalfUpCents(x) ==
    IF x.e >= -2 THEN x.c * Pow10(x.e + 2)
    ELSE LET n == (2 * Abs(x.c) + Pow10((-2) - x.e)) \div (2 * Pow10((-2) - x.e))
         IN  IF x.c < 0 THEN -n ELSE n

\* The year filter of a report: no tax_year selects every date.
InYear(t, tax_year) == tax_year = NoYear \/ Year(t) = tax_year[1]

\* The ledger's gains of one holding period and its income values, of the
\* year of the last call, in ledger order.
GainsInYear(hp) ==
    Gains(SelectSeq(tax_events,
        LAMBDA e : InYear(e.disposed_date, call.tax_year) /\ e.holding_period = hp))
IncomeInYear ==
    SelectSeq(income_events, LAMBDA e : InYear(e.date, call.tax_year))
FmvInYear == [k \in 1..Len(IncomeInYear) |-> IncomeInYear[k].fair_market_value_usd]
EventsInYear ==
    SelectSeq(tax_events, LAMBDA e : InYear(e.disposed_date, call.tax_year))

\* C18: generate_summary(Y) reports the sum of gain_loss_usd over the
\* short-term events disposed in year Y, the same over the long-term ones,
\* their sum as net total, the sum of fair_market_value_usd over the income
\* events of year Y, and the number of tax events of year Y; without a
\* tax_year, over the whole history.
C18_SummaryTotals ==
    call.op = "generate_summary" =>
        /\ ~call.raised
        /\ call.ret.capital_gains.short_term.total = HalfUpCents(PySum(GainsInYear("short")))
        /\ call.ret.capital_gains.long_term.total = HalfUpCents(PySum(GainsInYear("long")))
        /\ call.ret.capital_gains.net_total =
              HalfUpCents(DecAdd(PySum(GainsInYear("short")), PySum(GainsInYear("long"))))
        /\ call.ret.income.total = HalfUpCents(PySum(FmvInYear))
        /\ call.ret.income.events = Len(IncomeInYear)
        /\ call.ret.total_transactions = Len(EventsInYear)

\* The summary of the same ledger for the tax_year of the last call.
SummaryOfYear == generate_summary(method, tax_events, income_events, call.tax_year)

\* The row of a report is that of event e: same transaction, dates and term.
Form8949RowOf(row, e) ==
    /\ row.tx_hash = e.tx_hash
    /\ row.date_acquired = StrfMDY(e.acquired_date)
    /\ row.date_sold = StrfMDY(e.disposed_date)
    /\ (row.term = "A") = (e.holding_period = "short")
    /\ (row.term = "D") = (e.holding_period = "long")
CsvRowOf(row, e) ==
    /\ row.tx_hash = e.tx_hash
    /\ row.date_acquired = StrfYMD(e.acquired_date)
    /\ row.date_sold = StrfYMD(e.disposed_date)
    /\ row.holding_period = e.holding_period

\* The summary of the ledger counts n transactions, short and long together.
SummaryCounts(n) ==
    /\ ~SummaryOfYear.raised
    /\ SummaryOfYear.ret.total_transactions = n
    /\ SummaryOfYear.ret.capital_gains.short_term.events
          + SummaryOfYear.ret.capital_gains.long_term.events = n

\* C19: for every tax_year filter generate_form_8949 has one row per event
\* of the year and export_csv one data row per event of the year, both in
\* tax_events order, their number is generate_summary's total_transactions
\* (its short-term plus its long-term events), and a row's term is "A" for
\* a short-term event and "D" for a long-term one.
C19_ProjectionsAgree ==
    /\ call.op = "generate_form_8949" =>
          /\ Len(call.ret) = Len(EventsInYear)
          /\ \A k \in 1..Len(call.ret) : Form8949RowOf(call.ret[k], EventsInYear[k])
          /\ SummaryCounts(Len(call.ret))
    /\ call.op = "export_csv" =>
          /\ Len(call.ret) = 1 + Len(EventsInYear)
          /\ call.ret[1] = CsvHeader
          /\ \A k \in 1..Len(EventsInYear) : CsvRowOf(call.ret[k + 1], EventsInYear[k])
          /\ SummaryCounts(Len(call.ret) - 1)

\* The income values of one type in the year of the last call.
FmvOfType(t) ==
    LET of == SelectSeq(IncomeInYear, LAMBDA e : e.income_type = t)
    IN  [k \in 1..Len(of) |-> of[k].fair_market_value_usd]

\* C20: every monetary value of a summary (short-term, long-term, net and
\* income totals, each income-by-type total) is the full-precision value
\* rounded to two decimals, a half cent away from zero.
C20_RoundHalfUp ==
    (call.op = "generate_summary" /\ ~call.raised) =>
        /\ call.ret.capital_gains.short_term.total = HalfUpCents(PySum(GainsInYear("short")))
        /\ call.ret.capital_gains.long_term.total = HalfUpCents(PySum(GainsInYear("long")))
        /\ call.ret.capital_gains.net_total =
              HalfUpCents(DecAdd(PySum(GainsInYear("short")), PySum(GainsInYear("long"))))
        /\ call.ret.income.total = HalfUpCents(PySum(FmvInYear))
        /\ \A t \in DOMAIN call.ret.income.by_type :
              call.ret.income.by_type[t] = HalfUpCents(PySum(FmvOfType(t)))

\* The two lots of the scenario, as created: lot A, 10 UNI for $50 on
\* 2024-01-01, then lot B, 10 UNI for $100 on 2024-06-01.
ScenarioLots(L) ==
    /\ Len(L) = 2
    /\ created["UNI"] = <<[amount |-> Dec(10), cost_basis_usd |-> Dec(50)],
                          [amount |-> Dec(10), cost_basis_usd |-> Dec(100)]>>
    /\ StrfYMD(L[1].acquired_date) = <<2024, 1, 1>>
    /\ StrfYMD(L[2].acquired_date) = <<2024, 6, 1>>

\* The last call was the scenario's disposal: 15 UNI for $300 on 2024-07-01
\* under FIFO, on the two untouched lots.
ScenarioDisposed ==
    /\ method = "FIFO"
    /\ Disposed
    /\ call.asset = "UNI" /\ call.amount = Dec(15) /\ call.usd = Dec(300)
    /\ StrfYMD(call.date) = <<2024, 7, 1>>
    /\ call.before.tax_events = <<>>
    /\ ScenarioLots(LotsBefore)
    /\ LotsBefore[1].amount = Dec(10) /\ LotsBefore[2].amount = Dec(10)

\* The last call was generate_summary(2024) on the ledger the scenario
\* leaves.
ScenarioSummarised ==
    /\ method = "FIFO"
    /\ call.op = "generate_summary" /\ call.tax_year = <<2024>>
    /\ call.n = 3
    /\ income_events = <<>>
    /\ ScenarioLots(lots["UNI"])
    /\ lots["UNI"][1].amount = Dec(0) /\ lots["UNI"][2].amount = Dec(5)
    /\ \A k \in 1..Len(tax_events) : StrfYMD(tax_events[k].disposed_date) = <<2024, 7, 1>>

\* C21: under FIFO the scenario's disposal returns exactly two events, in
\* order (amount 10, cost basis 50, proceeds 200, gain 150, short) and
\* (amount 5, cost basis 50, proceeds 100, gain 50, short), leaves lot A with
\* amount 0 and lot B with amount 5 and cost basis 50, and the 2024 summary
\* reports a short-term total of 200.00 and a long-term total of 0.00.
C21_EndToEndFifo ==
    /\ ScenarioDisposed =>
          /\ Len(call.ret) = 2
          /\ call.ret[1].amount_disposed = Dec(10)
          /\ call.ret[1].cost_basis_usd = Dec(50)
          /\ call.ret[1].proceeds_usd = Dec(200)
          /\ call.ret[1].gain_loss_usd = Dec(150)
          /\ call.ret[1].holding_period = "short"
          /\ call.ret[2].amount_disposed = Dec(5)
          /\ call.ret[2].cost_basis_usd = Dec(50)
          /\ call.ret[2].proceeds_usd = Dec(100)
          /\ call.ret[2].gain_loss_usd = Dec(50)
          /\ call.ret[2].holding_period = "short"
          /\ LotsAfter[1].amount = Dec(0)
          /\ LotsAfter[2].amount = Dec(5)
          /\ LotsAfter[2].cost_basis_usd = Dec(50)
    /\ ScenarioSummarised =>
          /\ ~call.raised
          /\ call.ret.capital_gains.short_term.total = 20000
          /\ call.ret.capital_gains.long_term.total = 0

\* f assigns to each returned event a different lot that was open, the lot
\* the event was drawn from: the event has the lot's acquisition date and
\* the lot lost the event's amount and cost basis; every other lot is as it
\* was.
DrawnFrom(f) ==
    /\ \A j, k \in 1..Len(call.ret) : f[j] = f[k] => j = k
    /\ \A k \in 1..Len(call.ret) :
          /\ call.ret[k].acquired_date = LotsBefore[f[k]].acquired_date
          /\ LotsAfter[f[k]].amount =
                DecSub(LotsBefore[f[k]].amount, call.ret[k].amount_disposed)
          /\ LotsAfter[f[k]].cost_basis_usd =
                DecSub(LotsBefore[f[k]].cost_basis_usd, call.ret[k].cost_basis_usd)
    /\ \A i \in 1..Len(LotsBefore) :
          (\A k \in 1..Len(call.ret) : f[k] # i) => LotsAfter[i] = LotsBefore[i]

\* C23: an add_disposal call that matches lots returns at most one event per
\* lot of the asset and only for lots with amount > 0: every event has
\* amount_disposed > 0, the call's disposal date and transaction hash, and
\* is drawn from exactly one lot, whose acquisition date it carries.
C23_OneEventPerLot ==
    Matched =>
        /\ Len(call.ret) <= Cardinality(OpenBefore)
        /\ \A k \in 1..Len(call.ret) :
              /\ DecIsPos(call.ret[k].amount_disposed)
              /\ call.ret[k].disposed_date = call.date
              /\ call.ret[k].tx_hash = TxHash(call.n)
        /\ \E f \in [1..Len(call.ret) -> OpenBefore] : DrawnFrom(f)

C23_Witness ==
    /\ Matched
    /\ Len(call.ret) >= 1
    /\ \E i \in 1..Len(LotsBefore) :
          /\ ~IsOpen(LotsBefore[i])
          /\ LotsBefore[i].acquired_date < call.ret[1].acquired_date

IsPrefix(p, q) == Len(p) <= Len(q) /\ SubSeq(q, 1, Len(p)) = p

\* C24: tax_events is append-only: after every call the events recorded
\* before it are still there, in place and unmodified, and after add_disposal
\* tax_events is the earlier list followed by the list the call returned.
C24_TaxEventsAppendOnly ==
    call.op # "init" =>
        /\ IsPrefix(call.before.tax_events, tax_events)
        /\ Disposed => tax_events = call.before.tax_events \o call.ret

C24_Witness ==
    /\ Disposed
    /\ Len(call.before.tax_events) >= 1
    /\ Len(call.ret) >= 1
    /\ call.ret[1] # call.before.tax_events[1]

\* C25: add_disposal for an asset leaves the lots of every other asset and
\* income_events as they were; every event it returns has that asset and is
\* drawn from lots of that asset's list, which hold lots of that asset only.
C25_DisposalFrame ==
    /\ \A a \in Assets : \A i \in 1..Len(lots[a]) : lots[a][i].asset = a
    /\ Disposed =>
          /\ \A a \in Assets \ {call.asset} : lots[a] = call.before.lots[a]
          /\ income_events = call.before.income_events
          /\ \A k \in 1..Len(call.ret) : call.ret[k].asset = call.asset
          /\ Matched => \E f \in [1..Len(call.ret) -> OpenBefore] : DrawnFrom(f)

C25_Witness ==
    /\ Matched
    /\ Len(call.ret) >= 1
    /\ Len(income_events) >= 1
    /\ \E a \in Assets \ {call.asset} : \E i \in 1..Len(lots[a]) : IsOpen(lots[a][i])

\* A raw transaction whose conversion fails: not a dict, or a swap with an
\* amount that spells no number.
Malformed(tx) ==
    \/ ~tx.isdict
    \/ /\ tx.event \in SwapEvents
       /\ \/ ~ParseDecimal(tx.amount_in).ok
          \/ ~ParseDecimal(tx.amount_out).ok
          \/ ~ParseDecimal(tx.value_usd).ok

\* The last call was _process_transactions; the engine it would leave had
\* the batch held its well-formed records only.
Processed == call.op = "_process_transactions"
WellFormedOnly ==
    process_transactions(method, TaxEngine(method),
        SelectSeq(call.transactions, LAMBDA tx : ~Malformed(tx)))

\* The batch's well-formed records are all in the ledger, whatever stood
\* before or after them in the batch.
IngestedWellFormed ==
    /\ lots = WellFormedOnly.lots
    /\ tax_events = WellFormedOnly.tax_events
    /\ \A k \in 1..Len(call.transactions) :
          (call.outcomes[k] = "raised") = Malformed(call.transactions[k])

\* C22: _process_transactions ingests every well-formed record of a batch,
\* before or after a malformed one, and returns for each record whether its
\* conversion succeeded or failed.
C22_BatchReportsPerRecord ==
    Processed =>
        /\ IngestedWellFormed
        /\ call.ret # None
        /\ Len(call.ret[1]) = Len(call.transactions)
        /\ \A k \in 1..Len(call.transactions) :
              call.ret[1][k].ok = ~Malformed(call.transactions[k])

\* C26: GET /api/tax-report/csv with a valid wallet returns a CSV with one
\* data row per tax event (of the requested year) of the engine that the
\* request's generate_tax_report filled.
C26_CsvOfTheReport ==
    (call.op = "export_csv_endpoint" /\ StartsWith0x(call.request.wallet_address)) =>
        /\ ~call.raised
        /\ Len(call.ret) = 1 + Len(EventsOfYear(call.report_events, call.request.tax_year))

====
